---- MODULE Spec2Model ----
(***************************************************************************)
(* A model of the FreeCell rule engine of joshniemela/solitaire.           *)
(*                                                                         *)
(* src/src/main.rs is the playable binary: cards with a u8 rank, the three *)
(* Stackable implementations (Pile, Freecell, Foundation), Game::new and   *)
(* move_card.  src/src/lib.rs is the library draft of the same engine:     *)
(* Rank as an enum with next/prev, Foundation and Tableau with a checked   *)
(* push.  Definitions named X model main.rs, definitions named Lib_X model *)
(* lib.rs.                                                                 *)
(*                                                                         *)
(* Option<Card> is modelled as a sequence of length 0 (None) or 1 (Some).  *)
(***************************************************************************)
EXTENDS Integers, Sequences, FiniteSets, TLC

VARIABLES
    tableau,      \* Game.tableau: the piles, each a sequence of cards, bottom first
    freecells,    \* Game.freecells: each an Option<Card>
    foundations,  \* Game.foundations: each an Option<Card>
    from,         \* the source key of the last move_card call
    to,           \* the destination key of the last move_card call
    result,       \* what the last move_card call returned: "Ok", "Err", or "panic"
    site,         \* the return statement of move_card that produced the result
    moves,        \* the number of move_card calls made so far
    pc,           \* which experiment the behaviour is: "game", "stack", "deal" or "rank"
    impl,         \* the file whose code is exercised: "main" (main.rs) or "lib" (lib.rs)
    perm,         \* the shuffled deck handed to Game::new in the deal experiment
    sk,           \* the stack under test of the stack experiment: its kind and content
                  \* (in the rank experiment, the rank the chain of calls started from)
    arg,          \* the card handed to the stack operation (the rank of a rank call)
    op,           \* the operation applied: "init" before it, then its name
    out           \* what the stack operation left and returned (what a rank call returned)

vars == <<tableau, freecells, foundations, from, to, result, site, moves, pc, impl, perm, sk, arg, op, out>>

(***************************************************************************)
(* Bounds of the model.                                                    *)
(***************************************************************************)
\* move_card is called at most MaxMoves times in a behaviour
MaxMoves == 2

\* the shuffles of the deal experiment read the deck at a stride from an offset 0..MaxShift
MaxShift == 12

\* the piles of the stack experiment hold at most MaxBelow cards below their top card
MaxBelow == 1

(***************************************************************************)
(* Program constants (main.rs).                                            *)
(***************************************************************************)
FREECELL_NUM == 4

FOUNDATION_NUM == 4

TABLEAU_NUM == 8

\* (1..=13).collect() in Game::new
RANK_FIRST == 1

RANK_LAST == 13

\* the width of the rank: u8
U8_MODULUS == 256

FOUNDATION_KEYS == <<"t", "y", "u", "i">>

FREECELL_KEYS == <<"q", "w", "e", "r">>

PILE_KEYS == <<"1", "2", "3", "4", "5", "6", "7", "8">>

\* a key that is in none of the three tables, standing for every other char
OTHER_KEY == "x"

None == <<>>

Some(c) == <<c>>

Range(s) == {s[i] : i \in 1..Len(s)}

Keys == Range(FOUNDATION_KEYS) \cup Range(FREECELL_KEYS) \cup Range(PILE_KEYS) \cup {OTHER_KEY}

\* Suit::iter(): the variants in declaration order
Suit == <<"Clubs", "Diamonds", "Hearts", "Spades">>

Card(s, r) == [suit |-> s, rank |-> r]

(***************************************************************************)
(* u8 arithmetic: an overflowing operation panics in a build with overflow *)
(* checks and wraps in a build without them.                               *)
(***************************************************************************)
U8Sub(a, b) ==
    IF a >= b
    THEN {[panic |-> FALSE, val |-> a - b]}
    ELSE {[panic |-> TRUE, val |-> 0],
          [panic |-> FALSE, val |-> (a - b + U8_MODULUS) % U8_MODULUS]}

U8Add(a, b) ==
    IF a + b < U8_MODULUS
    THEN {[panic |-> FALSE, val |-> a + b]}
    ELSE {[panic |-> TRUE, val |-> 0],
          [panic |-> FALSE, val |-> (a + b) % U8_MODULUS]}

(***************************************************************************)
(* make_deck and deal_cards.                                               *)
(***************************************************************************)
\* for rank in ranks { for suit in Suit::iter() { cards.push(Card { suit, rank }) } }
make_deck(ranks) ==
    [k \in 1..(Len(ranks) * Len(Suit)) |->
        Card(Suit[((k - 1) % Len(Suit)) + 1], ranks[((k - 1) \div Len(Suit)) + 1])]

Ranks == [k \in 1..(RANK_LAST - RANK_FIRST + 1) |-> RANK_FIRST + k - 1]

RECURSIVE deal_loop(_, _, _, _)
\* the loop of deal_cards: piles[i].push(card); i = (i + 1) % num_piles
deal_loop(cards, num_piles, piles, i) ==
    IF cards = <<>>
    THEN piles
    ELSE deal_loop(Tail(cards), num_piles,
                   [piles EXCEPT ![i + 1] = Append(@, Head(cards))],
                   (i + 1) % num_piles)

\* a deal whose first card goes to the second pile
deal_cards_from_second(cards, num_piles) ==
    deal_loop(cards, num_piles, [j \in 1..num_piles |-> <<>>], 1)

deal_cards(cards, num_piles) ==
    deal_loop(cards, num_piles, [j \in 1..num_piles |-> <<>>], 0)

\* cards.shuffle(&mut rng) yields some permutation; the model draws it from the
\* permutations that read the deck at stride a from offset b (a coprime to the length)
Permute(cards, a, b) ==
    [k \in 1..Len(cards) |-> cards[((a * (k - 1 + b)) % Len(cards)) + 1]]

\* the strides that give a permutation of 52 cards
DealStrides == {a \in 1..51 : a % 2 = 1 /\ a % 13 /= 0}

Shuffles(deck, strides, shifts) ==
    {Permute(deck, a, b) : a \in strides, b \in 0..shifts}

\* the shuffles the games of the model start from: the deck reversed (aces and twos
\* on top of the piles) and the deck at stride 7 (mixed ranks on top)
GameShuffles(deck) == {Permute(deck, 51, 1), Permute(deck, 7, 0)}

\* Game::new with the shuffle's outcome given
Game_new(shuffled) ==
    [tableau |-> deal_cards(shuffled, TABLEAU_NUM),
     freecells |-> [j \in 1..FREECELL_NUM |-> None],
     foundations |-> [j \in 1..FOUNDATION_NUM |-> None]]

(***************************************************************************)
(* impl Stackable for Pile.  A pile is its Vec<Card>.                      *)
(***************************************************************************)
\* a rule that asks for a rank at most that of the top card and for no suit
Pile_legal_push_at_most(cards, card) ==
    IF cards = <<>>
    THEN {[panic |-> FALSE, val |-> TRUE]}
    ELSE {[panic |-> FALSE, val |-> (card.rank <= cards[Len(cards)].rank)]}

\* None => true, Some(Card{suit, rank}) => card.suit != *suit && card.rank == rank - 1
\* (&& does not evaluate rank - 1 when the suits are equal)
Pile_legal_push(cards, card) ==
    IF cards = <<>>
    THEN {[panic |-> FALSE, val |-> TRUE]}
    ELSE LET last == cards[Len(cards)] IN
         IF ~(card.suit /= last.suit)
         THEN {[panic |-> FALSE, val |-> FALSE]}
         ELSE {[panic |-> d.panic, val |-> (~d.panic /\ card.rank = d.val)] :
                 d \in U8Sub(last.rank, 1)}

\* a push that inserts the card at the bottom of the pile
Pile_push_under(cards, card) == <<card>> \o cards

Pile_push(cards, card) == Append(cards, card)

Pile_pop(cards) ==
    IF cards = <<>>
    THEN {[panic |-> FALSE, stack |-> cards, ret |-> None]}
    ELSE {[panic |-> FALSE, stack |-> SubSeq(cards, 1, Len(cards) - 1),
           ret |-> Some(cards[Len(cards)])]}

Pile_top(cards) == IF cards = <<>> THEN None ELSE Some(cards[Len(cards)])

(***************************************************************************)
(* impl Stackable for Freecell.  A freecell is its Option<Card>.           *)
(***************************************************************************)
\* a freecell that accepts a card whether or not it holds one
Freecell_legal_push_always(cell, card) == {[panic |-> FALSE, val |-> TRUE]}

Freecell_legal_push(cell, card) == {[panic |-> FALSE, val |-> (cell = None)]}

Freecell_push(cell, card) == Some(card)

\* a pop that forgets self.card = None
Freecell_pop_keeps(cell) == {[panic |-> FALSE, stack |-> cell, ret |-> cell]}

Freecell_pop(cell) == {[panic |-> FALSE, stack |-> None, ret |-> cell]}

Freecell_top(cell) == cell

(***************************************************************************)
(* impl Stackable for Foundation.  A foundation is its Option<Card>.       *)
(***************************************************************************)
\* an empty foundation that accepts the lowest rank of the deck, 1, instead of 0
Foundation_legal_push_ace(cell, card) ==
    IF cell = None
    THEN {[panic |-> FALSE, val |-> (card.rank = 1)]}
    ELSE IF ~(card.suit = cell[1].suit)
         THEN {[panic |-> FALSE, val |-> FALSE]}
         ELSE {[panic |-> s.panic, val |-> (~s.panic /\ card.rank = s.val)] :
                 s \in U8Add(cell[1].rank, 1)}

\* None => card.rank == 0, Some(Card{suit, rank}) => card.suit == suit && card.rank == rank + 1
Foundation_legal_push(cell, card) ==
    IF cell = None
    THEN {[panic |-> FALSE, val |-> (card.rank = 0)]}
    ELSE IF ~(card.suit = cell[1].suit)
         THEN {[panic |-> FALSE, val |-> FALSE]}
         ELSE {[panic |-> s.panic, val |-> (~s.panic /\ card.rank = s.val)] :
                 s \in U8Add(cell[1].rank, 1)}

Foundation_push(cell, card) == Some(card)

\* the stored rank is decremented (the card is dropped at rank 1) and the
\* function returns self.card as it is after the assignment
Foundation_pop(cell) ==
    IF cell = None
    THEN {[panic |-> FALSE, stack |-> None, ret |-> None]}
    ELSE IF cell[1].rank = 1
         THEN {[panic |-> FALSE, stack |-> None, ret |-> None]}
         ELSE {IF d.panic
               THEN [panic |-> TRUE, stack |-> cell, ret |-> None]
               ELSE [panic |-> FALSE,
                     stack |-> Some(Card(cell[1].suit, d.val)),
                     ret |-> Some(Card(cell[1].suit, d.val))] :
                 d \in U8Sub(cell[1].rank, 1)}

Foundation_top(cell) == cell

(***************************************************************************)
(* get_stackable: the key tables, and the dyn Stackable calls through the  *)
(* reference it returns.  A reference is the collection and the index.     *)
(***************************************************************************)
\* KEYS.iter().position(|&x| x == key): the index (from 0) of the first match
position(keys, key) == (CHOOSE i \in 1..Len(keys) : keys[i] = key /\ \A j \in 1..(i - 1) : keys[j] /= key) - 1

\* Err(()) of get_stackable
NoStack == [ok |-> FALSE, kind |-> "none", idx |-> 0, panic |-> FALSE]

\* a lookup whose foundation branch indexes game.freecells
get_stackable_mixed(game, key) ==
    IF key \in Range(FOUNDATION_KEYS)
    THEN LET i == position(FOUNDATION_KEYS, key) IN
         [ok |-> TRUE, kind |-> "freecell", idx |-> i + 1, panic |-> ~(i < Len(game.freecells))]
    ELSE IF key \in Range(FREECELL_KEYS)
    THEN LET i == position(FREECELL_KEYS, key) IN
         [ok |-> TRUE, kind |-> "freecell", idx |-> i + 1, panic |-> ~(i < Len(game.freecells))]
    ELSE IF key \in Range(PILE_KEYS)
    THEN LET i == position(PILE_KEYS, key) IN
         [ok |-> TRUE, kind |-> "pile", idx |-> i + 1, panic |-> ~(i < Len(game.tableau))]
    ELSE NoStack

\* the index expression game.xs[i] panics when i is out of bounds
get_stackable(game, key) ==
    IF key \in Range(FOUNDATION_KEYS)
    THEN LET i == position(FOUNDATION_KEYS, key) IN
         [ok |-> TRUE, kind |-> "foundation", idx |-> i + 1, panic |-> ~(i < Len(game.foundations))]
    ELSE IF key \in Range(FREECELL_KEYS)
    THEN LET i == position(FREECELL_KEYS, key) IN
         [ok |-> TRUE, kind |-> "freecell", idx |-> i + 1, panic |-> ~(i < Len(game.freecells))]
    ELSE IF key \in Range(PILE_KEYS)
    THEN LET i == position(PILE_KEYS, key) IN
         [ok |-> TRUE, kind |-> "pile", idx |-> i + 1, panic |-> ~(i < Len(game.tableau))]
    ELSE NoStack

\* the stack a reference points at
Deref(game, ref) ==
    CASE ref.kind = "foundation" -> game.foundations[ref.idx]
      [] ref.kind = "freecell" -> game.freecells[ref.idx]
      [] ref.kind = "pile" -> game.tableau[ref.idx]

\* the game with the stack a reference points at replaced
Store(game, ref, stack) ==
    CASE ref.kind = "foundation" -> [game EXCEPT !.foundations[ref.idx] = stack]
      [] ref.kind = "freecell" -> [game EXCEPT !.freecells[ref.idx] = stack]
      [] ref.kind = "pile" -> [game EXCEPT !.tableau[ref.idx] = stack]

top(kind, stack) ==
    CASE kind = "foundation" -> Foundation_top(stack)
      [] kind = "freecell" -> Freecell_top(stack)
      [] kind = "pile" -> Pile_top(stack)

legal_push(kind, stack, card) ==
    CASE kind = "foundation" -> Foundation_legal_push(stack, card)
      [] kind = "freecell" -> Freecell_legal_push(stack, card)
      [] kind = "pile" -> Pile_legal_push(stack, card)

pop(kind, stack) ==
    CASE kind = "foundation" -> Foundation_pop(stack)
      [] kind = "freecell" -> Freecell_pop(stack)
      [] kind = "pile" -> Pile_pop(stack)

push(kind, stack, card) ==
    CASE kind = "foundation" -> Foundation_push(stack, card)
      [] kind = "freecell" -> Freecell_push(stack, card)
      [] kind = "pile" -> Pile_push(stack, card)

(***************************************************************************)
(* move_card: the set of outcomes of one call (more than one only where a  *)
(* u8 operation overflows).  An outcome is the game it leaves, what it     *)
(* returns and the statement that returned.                                *)
(***************************************************************************)
Outcome(game, res, where) == [game |-> game, result |-> res, site |-> where]

\* lines 318-322: pop the source, unwrap, push onto the destination
move_card_commit(game, f, t) ==
    LET from_stack == get_stackable(game, f) IN
    {IF p.panic
     THEN Outcome(game, "panic", "pop")
     ELSE IF p.ret = None
     THEN Outcome(Store(game, from_stack, p.stack), "panic", "unwrap")
     ELSE LET popped == Store(game, from_stack, p.stack)
              to_stack == get_stackable(popped, t)
          IN  Outcome(Store(popped, to_stack,
                            push(to_stack.kind, Deref(popped, to_stack), p.ret[1])),
                      "Ok", "ok") :
       p \in pop(from_stack.kind, Deref(game, from_stack))}

\* a move that pops the source before it asks the destination
move_card_pop_first(game, f, t) ==
    LET from_stack == get_stackable(game, f) IN
    IF ~from_stack.ok THEN {Outcome(game, "Err", "from_address")}
    ELSE LET peek == top(from_stack.kind, Deref(game, from_stack)) IN
    IF peek = None THEN {Outcome(game, "Err", "empty_source")}
    ELSE LET to_stack == get_stackable(game, t) IN
    IF ~to_stack.ok THEN {Outcome(game, "Err", "to_address")}
    ELSE UNION {LET popped == Store(game, from_stack, p.stack) IN
                {IF l.val
                 THEN Outcome(Store(popped, to_stack,
                                    push(to_stack.kind, Deref(popped, to_stack), peek[1])),
                              "Ok", "ok")
                 ELSE Outcome(popped, "Err", "illegal") :
                   l \in legal_push(to_stack.kind, Deref(popped, to_stack), peek[1])} :
                  p \in pop(from_stack.kind, Deref(game, from_stack))}

\* a move that resolves both keys before it reads the source's top card
move_card_resolve_first(game, f, t) ==
    LET from_stack == get_stackable(game, f)
        to_stack == get_stackable(game, t)
    IN
    IF ~from_stack.ok THEN {Outcome(game, "Err", "from_address")}
    ELSE IF ~to_stack.ok THEN {Outcome(game, "Err", "to_address")}
    ELSE LET peek == top(from_stack.kind, Deref(game, from_stack)) IN
    IF peek = None THEN {Outcome(game, "Err", "empty_source")}
    ELSE UNION {IF l.val THEN move_card_commit(game, f, t)
                ELSE {Outcome(game, "Err", "illegal")} :
                  l \in legal_push(to_stack.kind, Deref(game, to_stack), peek[1])}

move_card(game, f, t) ==
    LET from_stack == get_stackable(game, f) IN
    IF ~from_stack.ok THEN {Outcome(game, "Err", "from_address")}
    ELSE IF from_stack.panic THEN {Outcome(game, "panic", "index")}
    ELSE LET peek == top(from_stack.kind, Deref(game, from_stack)) IN
    IF peek = None THEN {Outcome(game, "Err", "empty_source")}
    ELSE LET to_stack == get_stackable(game, t) IN
    IF ~to_stack.ok THEN {Outcome(game, "Err", "to_address")}
    ELSE IF to_stack.panic THEN {Outcome(game, "panic", "index")}
    ELSE UNION {IF l.panic THEN {Outcome(game, "panic", "legal_push")}
                ELSE IF l.val THEN move_card_commit(game, f, t)
                ELSE {Outcome(game, "Err", "illegal")} :
                  l \in legal_push(to_stack.kind, Deref(game, to_stack), peek[1])}

(***************************************************************************)
(* lib.rs: Suit, Colour, Rank, Deck, Foundation, Tableau, Game.            *)
(***************************************************************************)
\* Suit::iter() of lib.rs
Lib_Suit == <<"Hearts", "Diamonds", "Clubs", "Spades">>

\* Suit::colour
Lib_colour(suit) ==
    CASE suit = "Hearts" -> "Red"
      [] suit = "Diamonds" -> "Red"
      [] suit = "Clubs" -> "Black"
      [] suit = "Spades" -> "Black"

\* Rank::iter()
Lib_Rank == <<"Ace", "Two", "Three", "Four", "Five", "Six", "Seven",
              "Eight", "Nine", "Ten", "Jack", "Queen", "King">>

\* a next whose Ten arm names the Queen
Lib_Rank_next_skips(rank) ==
    CASE rank = "Ace" -> Some("Two")
      [] rank = "Two" -> Some("Three")
      [] rank = "Three" -> Some("Four")
      [] rank = "Four" -> Some("Five")
      [] rank = "Five" -> Some("Six")
      [] rank = "Six" -> Some("Seven")
      [] rank = "Seven" -> Some("Eight")
      [] rank = "Eight" -> Some("Nine")
      [] rank = "Nine" -> Some("Ten")
      [] rank = "Ten" -> Some("Queen")
      [] rank = "Jack" -> Some("Queen")
      [] rank = "Queen" -> Some("King")
      [] rank = "King" -> None

\* Rank::next: the match, arm by arm
Lib_Rank_next(rank) ==
    CASE rank = "Ace" -> Some("Two")
      [] rank = "Two" -> Some("Three")
      [] rank = "Three" -> Some("Four")
      [] rank = "Four" -> Some("Five")
      [] rank = "Five" -> Some("Six")
      [] rank = "Six" -> Some("Seven")
      [] rank = "Seven" -> Some("Eight")
      [] rank = "Eight" -> Some("Nine")
      [] rank = "Nine" -> Some("Ten")
      [] rank = "Ten" -> Some("Jack")
      [] rank = "Jack" -> Some("Queen")
      [] rank = "Queen" -> Some("King")
      [] rank = "King" -> None

\* Rank::prev: the match, arm by arm
Lib_Rank_prev(rank) ==
    CASE rank = "Ace" -> None
      [] rank = "Two" -> Some("Ace")
      [] rank = "Three" -> Some("Two")
      [] rank = "Four" -> Some("Three")
      [] rank = "Five" -> Some("Four")
      [] rank = "Six" -> Some("Five")
      [] rank = "Seven" -> Some("Six")
      [] rank = "Eight" -> Some("Seven")
      [] rank = "Nine" -> Some("Eight")
      [] rank = "Ten" -> Some("Nine")
      [] rank = "Jack" -> Some("Ten")
      [] rank = "Queen" -> Some("Jack")
      [] rank = "King" -> Some("Queen")

\* Deck::new: for suit in Suit::iter() { for rank in Rank::iter() { push } }
Lib_Deck_new ==
    [k \in 1..(Len(Lib_Suit) * Len(Lib_Rank)) |->
        Card(Lib_Suit[((k - 1) \div Len(Lib_Rank)) + 1], Lib_Rank[((k - 1) % Len(Lib_Rank)) + 1])]

\* Foundation::legal; a foundation is its top: Option<Card>
Lib_Foundation_legal(ftop, card) ==
    IF ftop = None
    THEN card.rank = "Ace"
    ELSE /\ card.suit = ftop[1].suit
         /\ LET next == Lib_Rank_next(ftop[1].rank) IN
            IF next = None THEN FALSE ELSE card.rank = next[1]

\* Foundation::push: Ok(()) is ok with nothing handed back, Err(card) hands the card back
Lib_Foundation_push(ftop, card) ==
    IF Lib_Foundation_legal(ftop, card)
    THEN [stack |-> Some(card), ok |-> TRUE, ret |-> None]
    ELSE [stack |-> ftop, ok |-> FALSE, ret |-> Some(card)]

\* Foundation::pop: Err(()) on None, otherwise the top is cleared and returned
Lib_Foundation_pop(ftop) ==
    IF ftop = None
    THEN [stack |-> ftop, ok |-> FALSE, ret |-> None]
    ELSE [stack |-> None, ok |-> TRUE, ret |-> ftop]

\* Tableau::legal; a tableau is its Vec<Card>
Lib_Tableau_legal(pile, card) ==
    IF pile = <<>>
    THEN TRUE
    ELSE LET last == pile[Len(pile)] IN
         /\ Lib_colour(card.suit) /= Lib_colour(last.suit)
         /\ LET prev == Lib_Rank_prev(last.rank) IN
            IF prev = None THEN FALSE ELSE card.rank = prev[1]

\* Tableau::push
Lib_Tableau_push(pile, card) ==
    IF Lib_Tableau_legal(pile, card)
    THEN [stack |-> Append(pile, card), ok |-> TRUE, ret |-> None]
    ELSE [stack |-> pile, ok |-> FALSE, ret |-> Some(card)]

\* Tableau::illegal_push
Lib_Tableau_illegal_push(pile, card) == Append(pile, card)

\* Tableau::pop
Lib_Tableau_pop(pile) ==
    IF pile = <<>>
    THEN [stack |-> pile, ok |-> FALSE, ret |-> None]
    ELSE [stack |-> SubSeq(pile, 1, Len(pile) - 1), ok |-> TRUE, ret |-> Some(pile[Len(pile)])]

RECURSIVE Lib_deal_loop(_, _, _)
\* the loop of Game::new: tableaus[i % TABLEAU_NUM].illegal_push(card), i from 0
Lib_deal_loop(deck, tableaus, i) ==
    IF i >= Len(deck)
    THEN tableaus
    ELSE Lib_deal_loop(deck,
                       [tableaus EXCEPT ![(i % TABLEAU_NUM) + 1] =
                            Lib_Tableau_illegal_push(@, deck[i + 1])],
                       i + 1)

\* Game::new of lib.rs with the shuffle's outcome given; Suit::COUNT foundations
Lib_Game_new(shuffled) ==
    [tableau |-> Lib_deal_loop(shuffled, [j \in 1..TABLEAU_NUM |-> <<>>], 0),
     freecells |-> [j \in 1..FREECELL_NUM |-> None],
     foundations |-> [j \in 1..Len(Lib_Suit) |-> None]]

(***************************************************************************)
(* The game: Game::new, then move_card calls with any keys.                *)
(***************************************************************************)
TheGame == [tableau |-> tableau, freecells |-> freecells, foundations |-> foundations]

StackIdle == sk = None /\ arg = None /\ op = "-" /\ out = None /\ perm = None

Init ==
    /\ pc = "game"
    /\ impl = "main"
    /\ \E shuffled \in GameShuffles(make_deck(Ranks)) :
         LET game == Game_new(shuffled) IN
         /\ tableau = game.tableau
         /\ freecells = game.freecells
         /\ foundations = game.foundations
    /\ from = "-" /\ to = "-" /\ result = "-" /\ site = "-"
    /\ moves = 0
    /\ StackIdle

MoveCard ==
    /\ pc = "game"
    /\ moves < MaxMoves
    /\ result /= "panic"
    /\ \E f \in Keys, t \in Keys :
         \E o \in move_card(TheGame, f, t) :
            /\ tableau' = o.game.tableau
            /\ freecells' = o.game.freecells
            /\ foundations' = o.game.foundations
            /\ from' = f
            /\ to' = t
            /\ result' = o.result
            /\ site' = o.site
    /\ moves' = moves + 1
    /\ UNCHANGED <<pc, impl, perm, sk, arg, op, out>>

Next == MoveCard

Spec == Init /\ [][Next]_vars

(***************************************************************************)
(* The stack experiment: one operation of one stack, of main.rs or lib.rs, *)
(* on a stack and a card drawn from bounded sets.  lib.rs has no freecell  *)
(* type and no top method.                                                 *)
(***************************************************************************)
GameIdle ==
    /\ tableau = <<>> /\ freecells = <<>> /\ foundations = <<>>
    /\ from = "-" /\ to = "-" /\ result = "-" /\ site = "-" /\ moves = 0

DeckOf(i) == IF i = "main" THEN make_deck(Ranks) ELSE Lib_Deck_new

\* the first k cards of the deck other than c
Below(deck, c, k) ==
    SubSeq(SelectSeq(SubSeq(deck, 1, k + 1), LAMBDA x : x /= c), 1, k)

\* the piles tried: the empty pile, and each card on top of at most MaxBelow others
PileStates(deck) ==
    {<<>>} \cup {Append(Below(deck, c, k), c) : c \in Range(deck), k \in 0..MaxBelow}

\* the freecells and foundations tried: empty, or holding any one card
CellStates(deck) == {None} \cup {Some(c) : c \in Range(deck)}

StacksOf(i) ==
    {[kind |-> "pile", stack |-> x] : x \in PileStates(DeckOf(i))}
    \cup {[kind |-> "foundation", stack |-> x] : x \in CellStates(DeckOf(i))}
    \cup IF i = "main"
         THEN {[kind |-> "freecell", stack |-> x] : x \in CellStates(DeckOf(i))}
         ELSE {}

\* legal_push (main.rs) or legal (lib.rs) of the stack under test
StackLegal(i, kind, stack, card) ==
    IF i = "main"
    THEN legal_push(kind, stack, card)
    ELSE {[panic |-> FALSE,
           val |-> IF kind = "foundation"
                   THEN Lib_Foundation_legal(stack, card)
                   ELSE Lib_Tableau_legal(stack, card)]}

\* push: main.rs returns (), lib.rs a Result<(), Card>
StackPushed(i, kind, stack, card) ==
    IF i = "main"
    THEN [stack |-> push(kind, stack, card), ok |-> TRUE, ret |-> None, panic |-> FALSE]
    ELSE LET r == IF kind = "foundation"
                  THEN Lib_Foundation_push(stack, card)
                  ELSE Lib_Tableau_push(stack, card)
         IN  [stack |-> r.stack, ok |-> r.ok, ret |-> r.ret, panic |-> FALSE]

\* pop: main.rs returns an Option<Card>, lib.rs a Result<Card, ()>
StackPopped(i, kind, stack) ==
    IF i = "main"
    THEN {[stack |-> p.stack, ok |-> (p.ret /= None), ret |-> p.ret, panic |-> p.panic] :
            p \in pop(kind, stack)}
    ELSE LET r == IF kind = "foundation"
                  THEN Lib_Foundation_pop(stack)
                  ELSE Lib_Tableau_pop(stack)
         IN  {[stack |-> r.stack, ok |-> r.ok, ret |-> r.ret, panic |-> FALSE]}

StackInit ==
    /\ pc = "stack"
    /\ impl \in {"main", "lib"}
    /\ sk \in StacksOf(impl)
    /\ arg \in {c \in Range(DeckOf(impl)) : c \notin Range(sk.stack)}
    /\ op = "init"
    /\ out = None
    /\ perm = None
    /\ GameIdle

StackFrame == UNCHANGED <<tableau, freecells, foundations, from, to, result, site, moves, pc, impl, perm, sk, arg>>

StackLegalPush ==
    /\ pc = "stack" /\ op = "init"
    /\ op' = "legal_push"
    /\ \E l \in StackLegal(impl, sk.kind, sk.stack, arg) :
         out' = [stack |-> sk.stack, ok |-> l.val, ret |-> None, panic |-> l.panic]
    /\ StackFrame

StackPush ==
    /\ pc = "stack" /\ op = "init"
    /\ op' = "push"
    /\ out' = StackPushed(impl, sk.kind, sk.stack, arg)
    /\ StackFrame

StackPop ==
    /\ pc = "stack" /\ op = "init"
    /\ op' = "pop"
    /\ out' \in StackPopped(impl, sk.kind, sk.stack)
    /\ StackFrame

StackTop ==
    /\ pc = "stack" /\ op = "init"
    /\ impl = "main"
    /\ op' = "top"
    /\ out' = [stack |-> sk.stack, ok |-> TRUE, ret |-> top(sk.kind, sk.stack), panic |-> FALSE]
    /\ StackFrame

StackNext == StackLegalPush \/ StackPush \/ StackPop \/ StackTop

SpecStack == StackInit /\ [][StackNext]_vars

(***************************************************************************)
(* The deal experiment: Game::new, of main.rs or lib.rs, on a shuffle of   *)
(* the deck drawn from a bounded set.                                      *)
(***************************************************************************)
DealInit ==
    /\ pc = "deal"
    /\ impl \in {"main", "lib"}
    /\ perm \in Shuffles(DeckOf(impl), DealStrides, MaxShift)
    /\ op = "init"
    /\ sk = None /\ arg = None /\ out = None
    /\ GameIdle

NewGame ==
    /\ pc = "deal" /\ op = "init"
    /\ op' = "Game::new"
    /\ LET game == IF impl = "main" THEN Game_new(perm) ELSE Lib_Game_new(perm) IN
       /\ tableau' = game.tableau
       /\ freecells' = game.freecells
       /\ foundations' = game.foundations
    /\ UNCHANGED <<from, to, result, site, moves, pc, impl, perm, sk, arg, out>>

DealNext == NewGame

SpecDeal == DealInit /\ [][DealNext]_vars

(***************************************************************************)
(* The rank experiment: Rank::next and Rank::prev of lib.rs, called on a   *)
(* rank and then on what the calls return.  sk holds the rank the chain    *)
(* started from, arg the rank of the last call and out what it returned.   *)
(***************************************************************************)
RankInit ==
    /\ pc = "rank"
    /\ impl = "lib"
    /\ \E r \in Range(Lib_Rank) : sk = Some(r) /\ arg = Some(r)
    /\ op = "init"
    /\ out = None
    /\ perm = None
    /\ GameIdle

\* the rank the next call is made on: the rank the last call returned, or the
\* rank it was made on when it returned none
Operand == IF out = None THEN arg[1] ELSE out[1]

RankFrame == UNCHANGED <<tableau, freecells, foundations, from, to, result, site, moves, pc, impl, perm, sk>>

RankNext ==
    /\ pc = "rank"
    /\ op' = "next"
    /\ arg' = Some(Operand)
    /\ out' = Lib_Rank_next(Operand)
    /\ RankFrame

RankPrev ==
    /\ pc = "rank"
    /\ op' = "prev"
    /\ arg' = Some(Operand)
    /\ out' = Lib_Rank_prev(Operand)
    /\ RankFrame

RankStep == RankNext \/ RankPrev

SpecRank == RankInit /\ [][RankStep]_vars

(***************************************************************************)
(* Properties of the game.                                                 *)
(***************************************************************************)
\* the stack keys: the keys of the three tables
StackKeys == Range(FOUNDATION_KEYS) \cup Range(FREECELL_KEYS) \cup Range(PILE_KEYS)

\* the index (from 1) of a key in its table
KeyIndex(keys, key) == CHOOSE i \in 1..Len(keys) : keys[i] = key

\* the top card (an Option) of the stack a stack key names, in a game
TopOfKey(game, key) ==
    IF key \in Range(FOUNDATION_KEYS) THEN game.foundations[KeyIndex(FOUNDATION_KEYS, key)]
    ELSE IF key \in Range(FREECELL_KEYS) THEN game.freecells[KeyIndex(FREECELL_KEYS, key)]
    ELSE LET pile == game.tableau[KeyIndex(PILE_KEYS, key)] IN
         IF Len(pile) = 0 THEN None ELSE Some(pile[Len(pile)])

\* a move_card call is the step
Called == moves' = moves + 1

RECURSIVE Flatten(_)
\* the concatenation of a sequence of sequences
Flatten(seqs) == IF seqs = <<>> THEN <<>> ELSE Head(seqs) \o Flatten(Tail(seqs))

\* the rank of a card as a number, Ace 1 to King 13
RankNo(i, card) ==
    IF i = "main" THEN card.rank
    ELSE CHOOSE n \in 1..Len(Lib_Rank) : Lib_Rank[n] = card.rank

\* the cards a foundation stands for: the stored card's suit, from the Ace up
\* to the stored rank
FoundationRun(i, cell) ==
    IF cell = None THEN <<>>
    ELSE [k \in 1..RankNo(i, cell[1]) |->
            Card(cell[1].suit, IF i = "main" THEN Ranks[k] ELSE Lib_Rank[k])]

\* every card the stacks hold, one entry for each place a card is in
HeldCards ==
    Flatten(tableau) \o Flatten(freecells)
    \o Flatten([j \in 1..Len(foundations) |-> FoundationRun(impl, foundations[j])])

\* each card of the deck is held exactly once and nothing else is held
EachCardOnce(deck) ==
    /\ Len(HeldCards) = Len(deck)
    /\ Range(HeldCards) = Range(deck)
    /\ Cardinality(Range(deck)) = Len(deck)

\* C1: after any sequence of move_card calls, successful or rejected, each of the
\* 52 (suit, rank) combinations is in exactly one place of the game: none is
\* duplicated and none is lost.
C1_Conservation ==
    pc = "game" => (Len(HeldCards) = 52 /\ EachCardOnce(make_deck(Ranks)))

\* C1 witness: a second call has moved a card out of a freecell.
C1_Witness ==
    /\ pc = "game" /\ moves = 2 /\ result = "Ok"
    /\ from \in Range(FREECELL_KEYS) /\ to \in Range(PILE_KEYS)

\* C2: a move_card call that returns an error leaves every pile, freecell and
\* foundation as it was before the call.
C2_FailedMoveChangesNothing ==
    [][(Called /\ result' = "Err") => UNCHANGED <<tableau, freecells, foundations>>]_vars

\* C2 witness: after a successful move, a call whose source has a top card was
\* rejected by the destination's legal_push.
C2_Witness ==
    /\ pc = "game" /\ moves = 2 /\ result = "Err" /\ site = "illegal"
    /\ \E j \in 1..Len(freecells) : freecells[j] /= None

\* the failure kind the specification gives to each error return of move_card
KindOfSite(s) ==
    CASE s = "from_address" -> "InvalidAddress"
      [] s = "to_address" -> "InvalidAddress"
      [] s = "empty_source" -> "EmptySource"
      [] s = "illegal" -> "IllegalMove"
      [] OTHER -> "none"

\* the destination accepts the source's top card (both keys name stacks, the
\* source has a top card)
Accepts(game, f, t) ==
    LET ref == get_stackable(game, t) IN
    \A l \in legal_push(ref.kind, Deref(game, ref), TopOfKey(game, f)[1]) : l.val

C6_AceThenKing ==
    [][(Called /\ from' \in Range(PILE_KEYS) /\ to' \in Range(FOUNDATION_KEYS)
        /\ TopOfKey(TheGame, from') /= None) =>
        LET card == TopOfKey(TheGame, from')[1]
            pile == KeyIndex(PILE_KEYS, from')
            found == KeyIndex(FOUNDATION_KEYS, to')
        IN  /\ (card.rank = RANK_FIRST /\ foundations[found] = None) =>
                  /\ result' = "Ok"
                  /\ foundations'[found] = Some(card)
                  /\ tableau'[pile] = SubSeq(tableau[pile], 1, Len(tableau[pile]) - 1)
            /\ (card.rank = RANK_LAST /\ foundations[found] /= None
                /\ foundations[found][1].rank = RANK_FIRST) =>
                  /\ result' = "Err"
                  /\ UNCHANGED <<tableau, freecells, foundations>>]_vars

\* C7: a move onto an occupied freecell is rejected and changes nothing; a move
\* of a source's top card onto an empty freecell succeeds and leaves the
\* freecell holding that card.
C7_FreecellCapacity ==
    [][(Called /\ to' \in Range(FREECELL_KEYS) /\ from' \in StackKeys
        /\ TopOfKey(TheGame, from') /= None) =>
        LET card == TopOfKey(TheGame, from')[1]
            cell == KeyIndex(FREECELL_KEYS, to')
        IN  IF freecells[cell] /= None
            THEN result' = "Err" /\ UNCHANGED <<tableau, freecells, foundations>>
            ELSE result' = "Ok" /\ freecells'[cell] = Some(card)]_vars

\* C7 witness: a move onto a freecell that holds a card was rejected.
C7_Witness ==
    /\ pc = "game" /\ result = "Err" /\ site = "illegal"
    /\ to \in Range(FREECELL_KEYS) /\ from \in Range(PILE_KEYS)
    /\ freecells[KeyIndex(FREECELL_KEYS, to)] /= None

\* C10: no move_card call panics: not at pop().unwrap(), not in the u8 rank
\* arithmetic, not at a stack index.
C10_NoPanic == pc = "game" => result /= "panic"

\* C10 witness: a call passed the legality check and pop().unwrap() took the
\* card of a freecell.
C10_Witness ==
    /\ pc = "game" /\ result = "Ok" /\ site = "ok"
    /\ from \in Range(FREECELL_KEYS)

(***************************************************************************)
(* Properties of the stacks and of the deal.                               *)
(***************************************************************************)
\* the colour of a suit: Hearts and Diamonds red, Clubs and Spades black
ColourOf(suit) == IF suit \in {"Hearts", "Diamonds"} THEN "red" ELSE "black"

\* the top card of a non-empty stack content
TopCard(stack) == stack[Len(stack)]

\* the stack under test accepts the card
LegalHere == \A l \in StackLegal(impl, sk.kind, sk.stack, arg) : l.val

\* C4 as stated: legal_push of a tableau pile is true iff the pile is empty, or
\* the card's colour differs from the top card's colour and its rank is exactly
\* one less than the top card's rank.
C4_TableauRule ==
    (pc = "stack" /\ op = "legal_push" /\ sk.kind = "pile") =>
        (out.ok <=>
            \/ sk.stack = <<>>
            \/ /\ ColourOf(arg.suit) /= ColourOf(TopCard(sk.stack).suit)
               /\ RankNo(impl, arg) = RankNo(impl, TopCard(sk.stack)) - 1)

\* C5 as stated: legal_push of a foundation is true iff the foundation is empty
\* and the card is an Ace, or it is not empty and the card has the stored
\* card's suit and the rank one above the stored rank.
C5_FoundationRule ==
    (pc = "stack" /\ op = "legal_push" /\ sk.kind = "foundation") =>
        (out.ok <=>
            IF sk.stack = None
            THEN RankNo(impl, arg) = 1
            ELSE /\ arg.suit = sk.stack[1].suit
                 /\ RankNo(impl, arg) = RankNo(impl, sk.stack[1]) + 1)

\* C8 as stated: for every stack variant, a push of a card that legal_push
\* rejects leaves the stack's length and top card unchanged and hands the card
\* back; a push of a card that legal_push accepts makes it the new top.
C8_PushAtomicity ==
    (pc = "stack" /\ op = "push") =>
        IF ~LegalHere
        THEN /\ Len(out.stack) = Len(sk.stack)
             /\ (Len(sk.stack) > 0 => TopCard(out.stack) = TopCard(sk.stack))
             /\ out.ret = Some(arg)
        ELSE /\ Len(out.stack) > 0
             /\ TopCard(out.stack) = arg

\* the cards of pile j (from 0) of a round-robin deal of p into n piles:
\* p[j], p[j + n], p[j + 2n], ... (indices from 0)
Slice(p, j, n) ==
    [k \in 1..Cardinality({i \in 0..(Len(p) - 1) : i % n = j}) |-> p[j + n * (k - 1) + 1]]

\* C9: the new game has 8 piles, pile j holding p[j], p[j+8], ... bottom to
\* top, of sizes 7,7,7,7,6,6,6,6, every (suit, rank) combination in exactly
\* one place; the 4 freecells and the 4 foundations are empty.
C9_Deal ==
    (pc = "deal" /\ op = "Game::new") =>
        /\ Len(tableau) = 8
        /\ \A j \in 0..7 : tableau[j + 1] = Slice(perm, j, 8)
        /\ [j \in 1..8 |-> Len(tableau[j])] = <<7, 7, 7, 7, 6, 6, 6, 6>>
        /\ Len(HeldCards) = 52
        /\ EachCardOnce(DeckOf(impl))
        /\ freecells = <<None, None, None, None>>
        /\ foundations = <<None, None, None, None>>

\* C9 witness: Game::new of main.rs has dealt a deck that is not in its made order.
C9_Witness ==
    /\ pc = "deal" /\ op = "Game::new" /\ impl = "main"
    /\ perm /= make_deck(Ranks)
    /\ tableau[8][6] = perm[48]

(***************************************************************************)
(* Properties of the addressing and of the effect of a move.               *)
(***************************************************************************)
\* the reference to the k-th stack of a kind
RefTo(kind, k) == [ok |-> TRUE, kind |-> kind, idx |-> k, panic |-> FALSE]

\* C11: the three key ranges are pairwise disjoint, the k-th key of a range
\* resolves to the k-th stack of its kind, the 16 keys resolve to 16 different
\* stacks, and a key outside the ranges resolves to no stack and makes the
\* move fail.
C11_Addressing ==
    pc = "game" =>
        /\ Range(FOUNDATION_KEYS) \cap Range(FREECELL_KEYS) = {}
        /\ Range(FOUNDATION_KEYS) \cap Range(PILE_KEYS) = {}
        /\ Range(FREECELL_KEYS) \cap Range(PILE_KEYS) = {}
        /\ \A k \in 1..Len(FOUNDATION_KEYS) :
             get_stackable(TheGame, FOUNDATION_KEYS[k]) = RefTo("foundation", k)
        /\ \A k \in 1..Len(FREECELL_KEYS) :
             get_stackable(TheGame, FREECELL_KEYS[k]) = RefTo("freecell", k)
        /\ \A k \in 1..Len(PILE_KEYS) :
             get_stackable(TheGame, PILE_KEYS[k]) = RefTo("pile", k)
        /\ Cardinality(StackKeys) = 16
        /\ Cardinality({get_stackable(TheGame, k) : k \in StackKeys}) = 16
        /\ ~get_stackable(TheGame, OTHER_KEY).ok
        /\ (moves > 0 /\ (from \notin StackKeys \/ to \notin StackKeys)) => result = "Err"

\* C11 witness: a call from a pile with a top card to a key that names no
\* stack failed at the lookup of the destination.
C11_Witness ==
    /\ pc = "game" /\ moves > 0 /\ result = "Err" /\ site = "to_address"
    /\ from \in Range(PILE_KEYS) /\ to = OTHER_KEY

\* the stack a stack key names, in a game: a pile's cards, or a cell's Option
StackOfKey(game, key) ==
    IF key \in Range(FOUNDATION_KEYS) THEN game.foundations[KeyIndex(FOUNDATION_KEYS, key)]
    ELSE IF key \in Range(FREECELL_KEYS) THEN game.freecells[KeyIndex(FREECELL_KEYS, key)]
    ELSE game.tableau[KeyIndex(PILE_KEYS, key)]

\* the cards the stack a stack key names holds, bottom first, a foundation
\* holding the run it stands for
ContentOfKey(game, key) ==
    IF key \in Range(FOUNDATION_KEYS)
    THEN FoundationRun("main", StackOfKey(game, key))
    ELSE StackOfKey(game, key)

\* the game after the step
GameAfter == [tableau |-> tableau', freecells |-> freecells', foundations |-> foundations']

\* C12: when move_card(from, to) returns Ok, the destination's new top is the
\* card the source's top() showed before the call, the source has lost exactly
\* that card, and every other stack is unchanged.
C12_MoveEffect ==
    [][(Called /\ result' = "Ok") =>
        LET f == from'
            t == to'
            before == ContentOfKey(TheGame, f)
        IN  /\ f \in StackKeys /\ t \in StackKeys
            /\ TopOfKey(TheGame, f) /= None
            /\ TopOfKey(GameAfter, t) = TopOfKey(TheGame, f)
            /\ ContentOfKey(GameAfter, f) = SubSeq(before, 1, Len(before) - 1)
            /\ \A k \in StackKeys \ {f, t} : StackOfKey(GameAfter, k) = StackOfKey(TheGame, k)]_vars

\* C12 witness: a card was moved from a pile onto another pile that held cards.
C12_Witness ==
    /\ pc = "game" /\ result = "Ok"
    /\ from \in Range(PILE_KEYS) /\ to \in Range(PILE_KEYS)
    /\ Len(StackOfKey(TheGame, to)) > 1

(***************************************************************************)
(* Properties of pop.                                                      *)
(***************************************************************************)
\* the card one rank below a card, of the same suit
OneBelow(i, card) ==
    Card(card.suit, IF i = "main" THEN card.rank - 1 ELSE Lib_Rank[RankNo(i, card) - 1])

\* C13 as stated: popping a foundation that stores a rank above the Ace leaves
\* it storing the rank one below of the same suit; popping a foundation that
\* stores the Ace leaves it empty; popping an empty foundation fails and
\* leaves it empty.
C13_FoundationPopDecrements ==
    (pc = "stack" /\ op = "pop" /\ sk.kind = "foundation") =>
        IF sk.stack = None
        THEN ~out.ok /\ out.stack = None
        ELSE IF RankNo(impl, sk.stack[1]) = 1
        THEN out.stack = None
        ELSE out.stack = Some(OneBelow(impl, sk.stack[1]))

\* the card a stack shows as its top: top() of main.rs; in lib.rs the top
\* field of a foundation and the last card of a tableau
Shown(kind, stack) ==
    IF kind = "pile"
    THEN (IF stack = <<>> THEN None ELSE Some(stack[Len(stack)]))
    ELSE stack

\* C14 as stated: for every stack variant, if top() shows a card then pop()
\* returns that card, and if top() shows none then pop() fails and leaves the
\* stack unchanged.
C14_PopReturnsTop ==
    (pc = "stack" /\ op = "pop") =>
        IF Shown(sk.kind, sk.stack) /= None
        THEN out.ret = Shown(sk.kind, sk.stack)
        ELSE ~out.ok /\ out.ret = None /\ out.stack = sk.stack

(***************************************************************************)
(* Properties of a move of a stack onto itself.                            *)
(***************************************************************************)
\* C15: move_card(k, k), the same key as source and destination, never
\* returns Ok and never changes the game, for every key k.
C15_SelfMoveNoOp ==
    [][(Called /\ from' = to') =>
        /\ result' = "Err"
        /\ UNCHANGED <<tableau, freecells, foundations>>]_vars

\* C15 witness: a freecell that holds a card was given as source and as
\* destination, and its own card was rejected.
C15_Witness ==
    /\ pc = "game" /\ from = to /\ from \in Range(FREECELL_KEYS)
    /\ result = "Err" /\ site = "illegal"
    /\ StackOfKey(TheGame, from) /= None

(***************************************************************************)
(* Properties of the ranks.                                                *)
(***************************************************************************)
\* the place of a rank among the 13 ranks, Ace 1 to King 13
Place(rank) == CHOOSE n \in 1..Len(Lib_Rank) : Lib_Rank[n] = rank

\* C16: next(King) is none and next(r) is the rank immediately above r
\* otherwise; prev(Ace) is none and prev(r) is the rank immediately below r
\* otherwise; prev(next(r)) = r and next(prev(r)) = r wherever the inner call
\* returns a rank.
C16_RankAdjacency ==
    (pc = "rank" /\ op /= "init") =>
        /\ Len(Lib_Rank) = 13 /\ Cardinality(Range(Lib_Rank)) = 13
        /\ op = "next" =>
             IF arg[1] = "King"
             THEN out = None
             ELSE /\ out /= None
                  /\ Place(out[1]) = Place(arg[1]) + 1
                  /\ Lib_Rank_prev(out[1]) = arg
        /\ op = "prev" =>
             IF arg[1] = "Ace"
             THEN out = None
             ELSE /\ out /= None
                  /\ Place(out[1]) = Place(arg[1]) - 1
                  /\ Lib_Rank_next(out[1]) = arg

\* C16 witness: a chain of calls that started at the Ace has reached the King
\* and prev has returned the Queen.
C16_Witness ==
    /\ pc = "rank" /\ op = "prev"
    /\ sk = Some("Ace") /\ arg = Some("King") /\ out = Some("Queen")

====
